---------------------------- MODULE Spec2Model ----------------------------
(***************************************************************************)
(* The two BLAKE3 extension modules of the repository:                     *)
(*                                                                         *)
(*   Modules/_blake3module.c         type Blake3Object  ("Blake3" below):  *)
(*                                   blake3(), update, digest, hexdigest,  *)
(*                                   copy and the module function          *)
(*                                   derive_key                            *)
(*   Modules/_blake3/blake3module.c  type BLAKE3Object  ("BLAKE3" below):  *)
(*                                   tp_new/tp_init, update, digest,       *)
(*                                   hexdigest, copy                       *)
(*                                                                         *)
(* Both wrap the vendored hash engine of blake3.h (blake3_hasher), whose   *)
(* source is not among the repository's files; the engine is written here  *)
(* after sections 3 and 4 of the specification.  The compression function  *)
(* is kept symbolic: Compress builds the term of its arguments, so two     *)
(* chaining values are equal exactly when they were computed from the same *)
(* inputs (the hash is collision-free by construction).                    *)
(***************************************************************************)
EXTENDS Integers, Sequences, FiniteSets, TLC

(***************************************************************************)
(* Constants of blake3.h, exported by PyInit__blake3.                      *)
(***************************************************************************)
BLAKE3_KEY_LEN == 32
BLAKE3_OUT_LEN == 32
BLAKE3_BLOCK_LEN == 64
BLAKE3_CHUNK_LEN == 1024
BLAKE3_DEFAULT_DIGEST_SIZE == 32
MAX_DIGEST_SIZE == 65536

(***************************************************************************)
(* Bounds of the model.                                                    *)
(***************************************************************************)
MaxFeeds == 2       \* input pieces given to the hashers, all together

Rep(n, b) == [i \in 1..n |-> b]
Min(a, b) == IF a < b THEN a ELSE b

(***************************************************************************)
(* Compression Core (spec 4.1).  The result of one compression, as the     *)
(* term of its inputs.  Read as a chaining value it stands for the first   *)
(* 8 words of the state; with ROOT set its 64 bytes are read by RootByte.  *)
(***************************************************************************)
Compress(cv, block, block_len, counter, flags) ==
    [cv |-> cv, block |-> block, block_len |-> block_len,
     counter |-> counter, flags |-> flags]

\* A short final block is zero-padded; its true length travels separately.
PadBlock(buf) == buf \o Rep(BLAKE3_BLOCK_LEN - Len(buf), 0)

(***************************************************************************)
(* Output: the inputs of a compression not yet performed (a chunk's last   *)
(* block, or a parent node), from which either its chaining value or, at   *)
(* the root, the output stream is computed.                                *)
(***************************************************************************)
Output(cv, block, block_len, counter, flags) ==
    [input_cv |-> cv, block |-> block, block_len |-> block_len,
     counter |-> counter, flags |-> flags]

chaining_value(out) ==
    Compress(out.input_cv, out.block, out.block_len, out.counter, out.flags)

\* Byte p of the root output stream: byte p % 64 of the compression whose
\* counter is the output block p \div 64 and whose flags include ROOT.
RootByte(out, p) ==
    [state |-> Compress(out.input_cv, out.block, out.block_len,
                        p \div BLAKE3_BLOCK_LEN, out.flags \cup {"ROOT"}),
     at |-> p % BLAKE3_BLOCK_LEN]

\* The numeric value of a root output byte: a fixed function of the byte.
RootByteValue(out, p) ==
    (out.block_len * 37 + Cardinality(out.flags) * 11
       + (p \div BLAKE3_BLOCK_LEN) * 101 + (p % BLAKE3_BLOCK_LEN) * 59 + 7) % 256

(***************************************************************************)
(* A byte string read from a root output stream: `len` bytes starting at   *)
(* offset `seek` of the stream of `xof`.  Byte i (from 0) of the string is *)
(* RootByte(xof, seek + i).                                                *)
(***************************************************************************)
root_output_bytes(out, seek, out_len) ==
    [xof |-> out, seek |-> seek, len |-> out_len]

BytesLen(d) == d.len
ByteAt(d, i) == RootByte(d.xof, d.seek + i)
ByteValueAt(d, i) == RootByteValue(d.xof, d.seek + i)
\* The first n bytes of a byte string read from a root output stream.
Take(d, n) == [d EXCEPT !.len = n]

(***************************************************************************)
(* Chunk Processor (spec 4.2).                                             *)
(***************************************************************************)
chunk_state_init(key, chunk_counter) ==
    [cv |-> key, chunk_counter |-> chunk_counter,
     buf |-> << >>, blocks_compressed |-> 0]

chunk_state_len(cs) == BLAKE3_BLOCK_LEN * cs.blocks_compressed + Len(cs.buf)

start_flag(cs) == IF cs.blocks_compressed = 0 THEN {"CHUNK_START"} ELSE {}

\* Takes input[from..to] into the chunk: a full buffered block is
\* compressed only when more input arrives, so the chunk's last block
\* stays in the buffer for chunk_state_output.
RECURSIVE chunk_state_update(_, _, _, _, _)
chunk_state_update(cs, flags, input, from, to) ==
    IF from > to THEN cs
    ELSE IF Len(cs.buf) = BLAKE3_BLOCK_LEN
    THEN chunk_state_update(
             [cs EXCEPT !.cv = Compress(cs.cv, cs.buf, BLAKE3_BLOCK_LEN,
                                        cs.chunk_counter,
                                        flags \cup start_flag(cs)),
                        !.blocks_compressed = @ + 1,
                        !.buf = << >>],
             flags, input, from, to)
    ELSE LET take == Min(BLAKE3_BLOCK_LEN - Len(cs.buf), to - from + 1)
         IN  chunk_state_update(
                 [cs EXCEPT !.buf = @ \o SubSeq(input, from, from + take - 1)],
                 flags, input, from + take, to)

chunk_state_output(cs, flags) ==
    Output(cs.cv, PadBlock(cs.buf), Len(cs.buf), cs.chunk_counter,
           flags \cup start_flag(cs) \cup {"CHUNK_END"})

(***************************************************************************)
(* Tree Reducer (spec 4.3).                                                *)
(***************************************************************************)
parent_output(left, right, key, flags) ==
    Output(key, <<left, right>>, BLAKE3_BLOCK_LEN, 0, flags \cup {"PARENT"})

parent_cv(left, right, key, flags) ==
    chaining_value(parent_output(left, right, key, flags))

\* Merge the new chunk's value with the stack's top once per trailing zero
\* bit of the number of chunks completed, then push.
RECURSIVE add_chunk_chaining_value(_, _, _, _, _)
add_chunk_chaining_value(stack, new_cv, total_chunks, key, flags) ==
    IF total_chunks % 2 = 0
    THEN add_chunk_chaining_value(
             SubSeq(stack, 1, Len(stack) - 1),
             parent_cv(stack[Len(stack)], new_cv, key, flags),
             total_chunks \div 2, key, flags)
    ELSE Append(stack, new_cv)

(***************************************************************************)
(* Hasher State (spec 4.4) and Mode Selector (spec 4.5).                   *)
(***************************************************************************)
IV == [iv |-> "BLAKE3"]

hasher_init_base(key, flags) ==
    [key |-> key, flags |-> flags,
     chunk |-> chunk_state_init(key, 0), cv_stack |-> << >>]

blake3_hasher_init == hasher_init_base(IV, {})

blake3_hasher_init_keyed(key) ==
    hasher_init_base([user_key |-> key], {"KEYED_HASH"})

\* Takes input[from..] into the hasher: a full chunk is closed and its
\* chaining value pushed only when more input arrives.
RECURSIVE hasher_update_from(_, _, _)
hasher_update_from(h, input, from) ==
    IF from > Len(input) THEN h
    ELSE LET h1 == IF chunk_state_len(h.chunk) = BLAKE3_CHUNK_LEN
                   THEN LET total == h.chunk.chunk_counter + 1
                        IN  [h EXCEPT
                               !.cv_stack = add_chunk_chaining_value(
                                   h.cv_stack,
                                   chaining_value(
                                       chunk_state_output(h.chunk, h.flags)),
                                   total, h.key, h.flags),
                               !.chunk = chunk_state_init(h.key, total)]
                   ELSE h
             take == Min(BLAKE3_CHUNK_LEN - chunk_state_len(h1.chunk),
                         Len(input) - from + 1)
         IN  hasher_update_from(
                 [h1 EXCEPT !.chunk = chunk_state_update(
                                h1.chunk, h1.flags, input,
                                from, from + take - 1)],
                 input, from + take)

blake3_hasher_update(h, input) == hasher_update_from(h, input, 1)

\* The root node: the pending chunk folded with the right-edge stack, top
\* first.  Nothing of the hasher is written.
RECURSIVE fold_stack(_, _, _, _)
fold_stack(stack, out, key, flags) ==
    IF stack = << >> THEN out
    ELSE fold_stack(SubSeq(stack, 1, Len(stack) - 1),
                    parent_output(stack[Len(stack)], chaining_value(out),
                                  key, flags),
                    key, flags)

hasher_root(h) ==
    fold_stack(h.cv_stack, chunk_state_output(h.chunk, h.flags),
               h.key, h.flags)

blake3_hasher_finalize_seek(h, seek, out_len) ==
    root_output_bytes(hasher_root(h), seek, out_len)

\* The context is hashed whole under DERIVE_KEY_CONTEXT; its first 32
\* output bytes key a hasher flagged DERIVE_KEY_MATERIAL.
blake3_hasher_init_derive_key_raw(context) ==
    LET context_hasher ==
            blake3_hasher_update(
                hasher_init_base(IV, {"DERIVE_KEY_CONTEXT"}), context)
        context_key ==
            blake3_hasher_finalize_seek(context_hasher, 0, BLAKE3_KEY_LEN)
    IN  hasher_init_base([context_key |-> context_key],
                         {"DERIVE_KEY_MATERIAL"})

(***************************************************************************)
(* Python values.  An optional argument is [given, v]; a call returns      *)
(* [status, self, bytes, hex, new]: the exception raised or "ok", the      *)
(* object the method was called on as the call leaves it, and the bytes,   *)
(* str or new object returned.                                             *)
(***************************************************************************)
Absent == [given |-> FALSE, v |-> << >>]
Bytes(b) == [given |-> TRUE, v |-> b]
NoLength == [given |-> FALSE, v |-> 0]
Length(n) == [given |-> TRUE, v |-> n]

NoBytes == [none |-> TRUE]
NoObject ==
    [alive |-> FALSE, type |-> "none", hasher |-> blake3_hasher_init,
     digest_size |-> 0]

Return(status, self, bytes, hex, new) ==
    [status |-> status, self |-> self, bytes |-> bytes, hex |-> hex,
     new |-> new]
Raise(exc, self) == Return(exc, self, NoBytes, << >>, NoObject)

\* What a C callee taking `const char *` reads of a bytes object's buffer:
\* the bytes before the first zero byte (a bytes object's buffer ends with
\* one more zero byte after its data).
RECURSIVE CString(_)
CString(buf) ==
    IF buf = << >> \/ Head(buf) = 0 THEN << >>
    ELSE <<Head(buf)>> \o CString(Tail(buf))

\* snprintf(buf, 3, "%02x", byte): the two characters written, as codes.
HexDigit(n) == IF n < 10 THEN 48 + n ELSE 97 + (n - 10)
Format02x(byte) == <<HexDigit(byte \div 16), HexDigit(byte % 16)>>

(***************************************************************************)
(* Modules/_blake3module.c: Blake3Object {hasher, digest_size}.            *)
(***************************************************************************)
\* blake3(digest_size=...) without data and key.  (data and key are parsed
\* with "y*" into PyObject* variables, so a call passing either has no
\* defined behaviour; such calls are not part of the model.)
blake3_new(digest_size) ==
    LET size == IF digest_size.given THEN digest_size.v
                ELSE BLAKE3_DEFAULT_DIGEST_SIZE
    IN  IF size < 1 \/ size > MAX_DIGEST_SIZE
        THEN Raise("ValueError", NoObject)
        ELSE Return("ok", NoObject, NoBytes, << >>,
                    [alive |-> TRUE, type |-> "Blake3",
                     hasher |-> blake3_hasher_init,
                     digest_size |-> size])

\* A bug Blake3_update could have: hashing the argument from a fresh state.
Blake3_update_restarting(self, arg) ==
    Return("ok",
           [self EXCEPT !.hasher = blake3_hasher_update(blake3_hasher_init,
                                                        arg)],
           NoBytes, << >>, NoObject)

Blake3_update(self, arg) ==
    Return("ok", [self EXCEPT !.hasher = blake3_hasher_update(@, arg)],
           NoBytes, << >>, NoObject)

\* A bug Blake3_digest could have: a finalize that closes the hasher,
\* leaving it reset.
Blake3_digest_destructive(self, length_arg) ==
    LET length == IF length_arg.given THEN length_arg.v
                  ELSE self.digest_size
    IN  IF length <= 0
        THEN Raise("ValueError", self)
        ELSE Return("ok", [self EXCEPT !.hasher = blake3_hasher_init],
                    blake3_hasher_finalize_seek(self.hasher, 0, length),
                    << >>, NoObject)

Blake3_digest(self, length_arg) ==
    LET length == IF length_arg.given THEN length_arg.v
                  ELSE self.digest_size
    IN  IF length <= 0
        THEN Raise("ValueError", self)
        ELSE Return("ok", self,
                    blake3_hasher_finalize_seek(self.hasher, 0, length),
                    << >>, NoObject)

\* PyUnicode_New(digest_len * 2, 0x66), then PyUnicode_WriteChar of the two
\* "%02x" characters of each byte; WriteChar fails on a character above
\* the string's maximum character.
Blake3_hexdigest(self, length_arg) ==
    LET length == IF length_arg.given THEN length_arg.v
                  ELSE self.digest_size
    IN  IF length <= 0
        THEN Raise("ValueError", self)
        ELSE LET d == Blake3_digest(self, length_arg)
             IN  IF d.status # "ok" THEN Raise(d.status, d.self)
                 ELSE LET digest_len == BytesLen(d.bytes)
                          hex == [pos \in 1..(digest_len * 2) |->
                                    Format02x(ByteValueAt(d.bytes,
                                        (pos - 1) \div 2))[((pos - 1) % 2) + 1]]
                      IN  IF \E pos \in 1..(digest_len * 2) : hex[pos] > 102
                          THEN Raise("ValueError", d.self)
                          ELSE Return("ok", d.self, NoBytes, hex, NoObject)

\* A bug Blake3_copy could have: copying digest_size but not the hasher.
Blake3_copy_without_state(self) ==
    Return("ok", self, NoBytes, << >>,
           [alive |-> TRUE, type |-> "Blake3",
            hasher |-> blake3_hasher_init, digest_size |-> self.digest_size])

Blake3_copy(self) ==
    Return("ok", self, NoBytes, << >>,
           [alive |-> TRUE, type |-> "Blake3",
            hasher |-> self.hasher, digest_size |-> self.digest_size])

\* derive_key(key_material, context, length=32).  The context is handed to
\* blake3_hasher_init_derive_key as a C string, without its length.
blake3_derive_key(key_material, context, length_arg) ==
    LET length == IF length_arg.given THEN length_arg.v
                  ELSE BLAKE3_DEFAULT_DIGEST_SIZE
    IN  IF length < 1 \/ length > MAX_DIGEST_SIZE
        THEN Raise("ValueError", NoObject)
        ELSE IF Len(context) = 0
        THEN Raise("ValueError", NoObject)
        ELSE LET hasher ==
                     blake3_hasher_update(
                         blake3_hasher_init_derive_key_raw(CString(context)),
                         key_material)
             IN  Return("ok", NoObject,
                        blake3_hasher_finalize_seek(hasher, 0, length),
                        << >>, NoObject)

(***************************************************************************)
(* Modules/_blake3/blake3module.c: BLAKE3Object {hasher}.                  *)
(***************************************************************************)
\* tp_new of BLAKE3Object (the file's blake3_new).
BLAKE3_new ==
    [alive |-> TRUE, type |-> "BLAKE3", hasher |-> blake3_hasher_init,
     digest_size |-> 0]

\* A bug blake3_init could have: no check that key and context exclude
\* each other, the context winning.
blake3_init_key_with_context(self, data, key, context) ==
    IF context.given /\ Len(context.v) = 0
    THEN Raise("ValueError", self)
    ELSE IF ~context.given /\ key.given /\ Len(key.v) # BLAKE3_KEY_LEN
    THEN Raise("ValueError", self)
    ELSE LET h == IF context.given
                  THEN blake3_hasher_init_derive_key_raw(context.v)
                  ELSE IF key.given
                  THEN blake3_hasher_init_keyed(key.v)
                  ELSE blake3_hasher_init
             h2 == IF data.given /\ Len(data.v) > 0
                   THEN blake3_hasher_update(h, data.v)
                   ELSE h
         IN  Return("ok", [self EXCEPT !.hasher = h2], NoBytes, << >>,
                    NoObject)

\* A bug blake3_init could have: resetting the hasher before the arguments
\* are validated.
blake3_init_reset_first(self, data, key, context) ==
    LET reset == [self EXCEPT !.hasher = blake3_hasher_init]
    IN  IF key.given /\ context.given
        THEN Raise("TypeError", reset)
        ELSE IF context.given /\ Len(context.v) = 0
        THEN Raise("ValueError", reset)
        ELSE IF ~context.given /\ key.given /\ Len(key.v) # BLAKE3_KEY_LEN
        THEN Raise("ValueError", reset)
        ELSE LET h == IF context.given
                      THEN blake3_hasher_init_derive_key_raw(context.v)
                      ELSE IF key.given
                      THEN blake3_hasher_init_keyed(key.v)
                      ELSE blake3_hasher_init
                 h2 == IF data.given /\ Len(data.v) > 0
                       THEN blake3_hasher_update(h, data.v)
                       ELSE h
             IN  Return("ok", [self EXCEPT !.hasher = h2], NoBytes, << >>,
                        NoObject)

\* tp_init of BLAKE3Object: data, key and context are optional buffers.
blake3_init(self, data, key, context) ==
    IF key.given /\ context.given
    THEN Raise("TypeError", self)
    ELSE IF context.given /\ Len(context.v) = 0
    THEN Raise("ValueError", self)
    ELSE IF ~context.given /\ key.given /\ Len(key.v) # BLAKE3_KEY_LEN
    THEN Raise("ValueError", self)
    ELSE LET h == IF context.given
                  THEN blake3_hasher_init_derive_key_raw(context.v)
                  ELSE IF key.given
                  THEN blake3_hasher_init_keyed(key.v)
                  ELSE blake3_hasher_init
             h2 == IF data.given /\ Len(data.v) > 0
                   THEN blake3_hasher_update(h, data.v)
                   ELSE h
         IN  Return("ok", [self EXCEPT !.hasher = h2], NoBytes, << >>,
                    NoObject)

blake3_update(self, arg) ==
    Return("ok", [self EXCEPT !.hasher = blake3_hasher_update(@, arg)],
           NoBytes, << >>, NoObject)

\* A bug blake3_digest could have: the length passed as the seek offset.
blake3_digest_seeking(self, length_arg) ==
    LET length == IF length_arg.given THEN length_arg.v ELSE BLAKE3_OUT_LEN
    IN  IF length <= 0
        THEN Raise("ValueError", self)
        ELSE Return("ok", self,
                    blake3_hasher_finalize_seek(self.hasher, length, length),
                    << >>, NoObject)

blake3_digest(self, length_arg) ==
    LET length == IF length_arg.given THEN length_arg.v ELSE BLAKE3_OUT_LEN
    IN  IF length <= 0
        THEN Raise("ValueError", self)
        ELSE Return("ok", self,
                    blake3_hasher_finalize_seek(self.hasher, 0, length),
                    << >>, NoObject)

\* PyUnicode_FromStringAndSize(NULL, size): since CPython 3.12 a NULL
\* buffer with a positive size is refused (SystemError, NULL returned); a
\* size of zero gives the empty string.
PyUnicode_FromStringAndSize_NULL(size) ==
    IF size > 0 THEN [ok |-> FALSE, exc |-> "SystemError"]
    ELSE [ok |-> TRUE, exc |-> "ok"]

blake3_hexdigest(self, length_arg) ==
    LET d == blake3_digest(self, length_arg)
    IN  IF d.status # "ok" THEN Raise(d.status, d.self)
        ELSE LET len == BytesLen(d.bytes)
                 hex == PyUnicode_FromStringAndSize_NULL(len * 2)
             IN  IF ~hex.ok THEN Raise(hex.exc, d.self)
                 ELSE Return("ok", d.self, NoBytes,
                             [pos \in 1..(len * 2) |->
                                Format02x(ByteValueAt(d.bytes,
                                    (pos - 1) \div 2))[((pos - 1) % 2) + 1]],
                             NoObject)

blake3_copy(self) ==
    Return("ok", self, NoBytes, << >>,
           [alive |-> TRUE, type |-> self.type, hasher |-> self.hasher,
            digest_size |-> self.digest_size])

(***************************************************************************)
(* The state: the hasher objects, the last call and what it returned, and  *)
(* (history, read by no operation) what each object was constructed with   *)
(* and given since; and the threads that call into one object at the same  *)
(* time, each with the call it makes and how far it has got.               *)
(***************************************************************************)
VARIABLES objs, last, hist, threads

vars == <<objs, last, hist, threads>>

\* The hasher objects: one made by a constructor, and a copy of it.
ObjIds == {1, 2}

DefaultMode == [kind |-> "default", key |-> << >>, context |-> << >>]
ModeOf(key, context) ==
    IF context.given
    THEN [kind |-> "derive_key", key |-> << >>, context |-> context.v]
    ELSE IF key.given
    THEN [kind |-> "keyed", key |-> key.v, context |-> << >>]
    ELSE DefaultMode
NoHist == [mode |-> DefaultMode, fed |-> << >>, feeds |-> 0, copied |-> FALSE]

NoArgs ==
    [data |-> Absent, key |-> Absent, context |-> Absent, length |-> NoLength]
Call(op, self, new, args, r) ==
    [op |-> op, self |-> self, new |-> new, args |-> args,
     status |-> r.status, bytes |-> r.bytes, hex |-> r.hex]

\* The inputs the calls are made with.
Key32 == Rep(BLAKE3_KEY_LEN, 7)
Key31 == Rep(BLAKE3_KEY_LEN - 1, 7)
Pieces == {<< >>, Rep(BLAKE3_CHUNK_LEN, 1), Rep(BLAKE3_CHUNK_LEN + 1, 2)}
Lengths == {NoLength, Length(0), Length(65)}
HexLengths == {NoLength, Length(0), Length(2)}
DigestSizes == {NoLength, Length(0)}
\* The arguments __init__ is run again with.
InitArgs ==
    {<<Bytes(<<1>>), Bytes(Key32), Absent>>,
     <<Absent, Bytes(Key31), Absent>>,
     <<Absent, Absent, Bytes(<< >>)>>,
     <<Absent, Bytes(Key32), Bytes(<<1, 0, 2>>)>>}
Keys == {Absent, Bytes(Key32), Bytes(Key31)}
Contexts == {Absent, Bytes(<< >>), Bytes(<<1, 0, 2>>)}
InitialData == {Absent, Bytes(<<1>>)}
Materials == {<<5>>}
KdfContexts == {<< >>, <<1>>}
KdfLengths == {NoLength}

\* The wide inputs: lengths around the cap, contexts with zero bytes.
WideLengths ==
    {NoLength, Length(-1), Length(0), Length(1), Length(32),
     Length(MAX_DIGEST_SIZE), Length(MAX_DIGEST_SIZE + 1)}
WideContexts ==
    {<< >>, <<1>>, <<2>>, <<1, 0, 2>>, <<1, 0, 3>>, <<0, 1>>}
WideMaterials == {<< >>, <<5>>}

\* The two threads of a process, and what a thread holds while it is in a
\* call: the fields of the shared hasher it has still to read or write, its
\* own copy of the hasher, and what the call returned.
ThreadIds == {1, 2}
HasherFields == {"cv_stack", "chunk"}
NoResult == [bytes |-> NoBytes, hasher |-> blake3_hasher_init]
IdleThread ==
    [pc |-> "idle", op |-> "none", piece |-> << >>, todo |-> {},
     local |-> blake3_hasher_init, result |-> NoResult]
NoThreads == [base |-> NoObject, of |-> [t \in ThreadIds |-> IdleThread]]

Init ==
    /\ objs = [o \in ObjIds |-> NoObject]
    /\ hist = [o \in ObjIds |-> NoHist]
    /\ last = Call("none", 0, 0, NoArgs, Raise("ok", NoObject))
    /\ threads = NoThreads

\* The pieces given so far: hist[o].feeds counts those given to o itself.
FeedsLeft == hist[1].feeds + hist[2].feeds < MaxFeeds

FreeIds == {o \in ObjIds : ~objs[o].alive}
LowestFree == CHOOSE o \in FreeIds : \A p \in FreeIds : o <= p

\* blake3(digest_size=...) of Modules/_blake3module.c.
NewBlake3(digest_size) ==
    /\ ~objs[1].alive
    /\ LET r == blake3_new(digest_size)
       IN  /\ objs' = IF r.status = "ok" THEN [objs EXCEPT ![1] = r.new]
                      ELSE objs
           /\ hist' = IF r.status = "ok" THEN [hist EXCEPT ![1] = NoHist]
                      ELSE hist
           /\ last' = Call("blake3", 0, IF r.status = "ok" THEN 1 ELSE 0,
                           [NoArgs EXCEPT !.length = digest_size], r)
    /\ UNCHANGED threads

\* BLAKE3(data, key, context) of Modules/_blake3/blake3module.c: tp_new,
\* then tp_init on the new object; the object is dropped when tp_init fails.
NewBLAKE3(data, key, context) ==
    /\ ~objs[1].alive
    /\ data.given => FeedsLeft
    /\ LET r == blake3_init(BLAKE3_new, data, key, context)
       IN  /\ objs' = IF r.status = "ok" THEN [objs EXCEPT ![1] = r.self]
                      ELSE objs
           /\ hist' = IF r.status = "ok"
                      THEN [hist EXCEPT ![1] =
                              [mode |-> ModeOf(key, context),
                               fed |-> data.v,
                               feeds |-> IF data.given THEN 1 ELSE 0,
                               copied |-> FALSE]]
                      ELSE hist
           /\ last' = Call("BLAKE3", 0, IF r.status = "ok" THEN 1 ELSE 0,
                           [NoArgs EXCEPT !.data = data, !.key = key,
                                          !.context = context], r)
    /\ UNCHANGED threads

\* o.__init__(data, key, context) on an existing BLAKE3 object.
InitBLAKE3(o, data, key, context) ==
    /\ objs[o].alive /\ objs[o].type = "BLAKE3"
    /\ data.given => FeedsLeft
    /\ LET r == blake3_init(objs[o], data, key, context)
       IN  /\ objs' = [objs EXCEPT ![o] = r.self]
           /\ hist' = IF r.status = "ok"
                      THEN [hist EXCEPT ![o] =
                              [@ EXCEPT
                                 !.mode = ModeOf(key, context),
                                 !.fed = data.v,
                                 !.feeds = @ + IF data.given THEN 1 ELSE 0]]
                      ELSE hist
           /\ last' = Call("__init__", o, 0,
                           [NoArgs EXCEPT !.data = data, !.key = key,
                                          !.context = context], r)
    /\ UNCHANGED threads

Update(o, piece) ==
    /\ objs[o].alive
    /\ FeedsLeft
    /\ LET r == IF objs[o].type = "Blake3" THEN Blake3_update(objs[o], piece)
                ELSE blake3_update(objs[o], piece)
       IN  /\ objs' = [objs EXCEPT ![o] = r.self]
           /\ hist' = [hist EXCEPT ![o].fed = @ \o piece, ![o].feeds = @ + 1]
           /\ last' = Call("update", o, 0,
                           [NoArgs EXCEPT !.data = Bytes(piece)], r)
    /\ UNCHANGED threads

Digest(o, length) ==
    /\ objs[o].alive
    /\ LET r == IF objs[o].type = "Blake3" THEN Blake3_digest(objs[o], length)
                ELSE blake3_digest(objs[o], length)
       IN  /\ objs' = [objs EXCEPT ![o] = r.self]
           /\ last' = Call("digest", o, 0,
                           [NoArgs EXCEPT !.length = length], r)
    /\ UNCHANGED <<hist, threads>>

Hexdigest(o, length) ==
    /\ objs[o].alive
    /\ LET r == IF objs[o].type = "Blake3"
                THEN Blake3_hexdigest(objs[o], length)
                ELSE blake3_hexdigest(objs[o], length)
       IN  /\ objs' = [objs EXCEPT ![o] = r.self]
           /\ last' = Call("hexdigest", o, 0,
                           [NoArgs EXCEPT !.length = length], r)
    /\ UNCHANGED <<hist, threads>>

Copy(o) ==
    /\ objs[o].alive
    /\ FreeIds # {}
    /\ LET r == IF objs[o].type = "Blake3" THEN Blake3_copy(objs[o])
                ELSE blake3_copy(objs[o])
           n == LowestFree
       IN  /\ objs' = [objs EXCEPT ![o] = r.self, ![n] = r.new]
           /\ hist' = [hist EXCEPT ![n] = [hist[o] EXCEPT !.feeds = 0,
                                                          !.copied = TRUE]]
           /\ last' = Call("copy", o, n, NoArgs, r)
    /\ UNCHANGED threads

\* derive_key(key_material, context, length) of Modules/_blake3module.c.
DeriveKey(key_material, context, length) ==
    /\ last' = Call("derive_key", 0, 0,
                    [NoArgs EXCEPT !.data = Bytes(key_material),
                                   !.context = Bytes(context),
                                   !.length = length],
                    blake3_derive_key(key_material, context, length))
    /\ UNCHANGED <<objs, hist, threads>>

Next ==
    \/ \E n \in DigestSizes : NewBlake3(n)
    \/ \E d \in InitialData, k \in Keys, c \in Contexts : NewBLAKE3(d, k, c)
    \/ \E o \in ObjIds, a \in InitArgs : InitBLAKE3(o, a[1], a[2], a[3])
    \/ \E o \in ObjIds, p \in Pieces : Update(o, p)
    \/ \E o \in ObjIds, n \in Lengths : Digest(o, n)
    \/ \E o \in ObjIds, n \in HexLengths : Hexdigest(o, n)
    \/ \E o \in ObjIds : Copy(o)
    \/ \E m \in Materials, c \in KdfContexts, n \in KdfLengths :
          DeriveKey(m, c, n)

Spec == Init /\ [][Next]_vars

\* The same program called with the wide inputs, on freshly made hashers.
NextWide ==
    \/ \E n \in WideLengths : NewBlake3(n)
    \/ \E k \in Keys, c \in {Absent} \cup {Bytes(x) : x \in WideContexts} :
          NewBLAKE3(Absent, k, c)
    \/ \E o \in ObjIds, n \in WideLengths : Digest(o, n)
    \/ \E o \in ObjIds, n \in HexLengths \ {NoLength} : Hexdigest(o, n)
    \/ \E m \in WideMaterials, c \in WideContexts, n \in WideLengths :
          DeriveKey(m, c, n)

SpecWide == Init /\ [][NextWide]_vars

(***************************************************************************)
(* Two threads in update, digest and copy of the same BLAKE3 object.  The  *)
(* module declares Py_MOD_GIL_NOT_USED and the methods take no lock and    *)
(* open no critical section on self, so in a free-threaded build the calls *)
(* of two threads run at the same time: each reads and writes the fields   *)
(* of self->hasher one after the other, in any order, with the steps of    *)
(* the other thread in between.  A run in which each call makes all its    *)
(* steps without the other in between is the run under the GIL.            *)
(***************************************************************************)
\* The calls the two threads make.
ThreadCalls ==
    {[op |-> "update", piece |-> <<3>>], [op |-> "update", piece |-> <<4>>],
     [op |-> "digest", piece |-> << >>], [op |-> "copy", piece |-> << >>]}

Idle == \A t \in ThreadIds : threads.of[t].pc = "idle"

\* A hasher with one field replaced by that field of another.
WithField(h, f, from) ==
    IF f = "cv_stack" THEN [h EXCEPT !.cv_stack = from.cv_stack]
    ELSE [h EXCEPT !.chunk = from.chunk]

\* The two threads are started, each with its call on object 1.
Spawn(c1, c2) ==
    /\ Idle
    /\ objs[1].alive /\ objs[1].type = "BLAKE3"
    /\ threads' =
         [base |-> objs[1],
          of |-> [t \in ThreadIds |->
                    LET c == IF t = 1 THEN c1 ELSE c2
                    IN  [IdleThread EXCEPT !.pc = "call", !.op = c.op,
                                           !.piece = c.piece]]]
    /\ UNCHANGED <<objs, last, hist>>

\* blake3_update, first part: blake3_hasher_update reads self->hasher and
\* works out the fields it is going to write.
UpdateLoad(t) ==
    /\ threads.of[t].pc = "call" /\ threads.of[t].op = "update"
    /\ threads' =
         [threads EXCEPT
            !.of[t].pc = "store",
            !.of[t].todo = HasherFields,
            !.of[t].local = blake3_update(objs[1],
                                          threads.of[t].piece).self.hasher]
    /\ UNCHANGED <<objs, last, hist>>

\* blake3_update, second part: one field of self->hasher is written; the
\* call returns None after the last one.
UpdateStore(t, f) ==
    /\ threads.of[t].pc = "store" /\ f \in threads.of[t].todo
    /\ objs' = [objs EXCEPT
                  ![1].hasher = WithField(@, f, threads.of[t].local)]
    /\ threads' =
         [threads EXCEPT
            !.of[t].todo = @ \ {f},
            !.of[t].pc = IF threads.of[t].todo = {f} THEN "done" ELSE @]
    /\ UNCHANGED <<last, hist>>

\* blake3_digest and blake3_copy start to read self->hasher: key and flags
\* are never written after construction.
ReadBegin(t) ==
    /\ threads.of[t].pc = "call" /\ threads.of[t].op \in {"digest", "copy"}
    /\ threads' =
         [threads EXCEPT
            !.of[t].pc = "read",
            !.of[t].todo = HasherFields,
            !.of[t].local = objs[1].hasher]
    /\ UNCHANGED <<objs, last, hist>>

\* One field of self->hasher is read; after the last one blake3_digest
\* returns the root output of what it read, blake3_copy the new object.
Read(t, f) ==
    /\ threads.of[t].pc = "read" /\ f \in threads.of[t].todo
    /\ LET local == WithField(threads.of[t].local, f, objs[1].hasher)
           seen == [objs[1] EXCEPT !.hasher = local]
           last_read == threads.of[t].todo = {f}
       IN  threads' =
             [threads EXCEPT
                !.of[t].todo = @ \ {f},
                !.of[t].local = local,
                !.of[t].pc = IF last_read THEN "done" ELSE @,
                !.of[t].result =
                    IF ~last_read THEN @
                    ELSE IF threads.of[t].op = "digest"
                    THEN [NoResult EXCEPT
                            !.bytes = blake3_digest(seen, NoLength).bytes]
                    ELSE [NoResult EXCEPT
                            !.hasher = blake3_copy(seen).new.hasher]]
    /\ UNCHANGED <<objs, last, hist>>

\* An object is made and given input by one thread; then two threads call
\* into it.
NextThreads ==
    \/ Idle /\ \E d \in InitialData, k \in {Absent, Bytes(Key32)} :
                  NewBLAKE3(d, k, Absent)
    \/ Idle /\ \E p \in Pieces : Update(1, p)
    \/ \E c1, c2 \in ThreadCalls : Spawn(c1, c2)
    \/ \E t \in ThreadIds : UpdateLoad(t)
    \/ \E t \in ThreadIds, f \in HasherFields : UpdateStore(t, f)
    \/ \E t \in ThreadIds : ReadBegin(t)
    \/ \E t \in ThreadIds, f \in HasherFields : Read(t, f)

SpecThreads == Init /\ [][NextThreads]_vars

(***************************************************************************)
(* The reference the claims compare with: a fresh hasher of a mode, given  *)
(* the whole input in one update.                                          *)
(***************************************************************************)
FreshHasher(mode) ==
    IF mode.kind = "derive_key"
    THEN blake3_hasher_init_derive_key_raw(mode.context)
    ELSE IF mode.kind = "keyed" THEN blake3_hasher_init_keyed(mode.key)
    ELSE blake3_hasher_init

OneUpdate(mode, input) == blake3_hasher_update(FreshHasher(mode), input)

FreshDigest(mode, input, length) ==
    blake3_hasher_finalize_seek(OneUpdate(mode, input), 0, length)

\* digest(length) of an object, by its type.
DigestOf(self, length_arg) ==
    IF self.type = "Blake3" THEN Blake3_digest(self, length_arg)
    ELSE blake3_digest(self, length_arg)

PositiveLengths == {1, 32, 64, 65}

\* C1. Streaming equivalence: a hasher given its input in pieces, split
\* anywhere, returns for every positive length the digest of a hasher of
\* the same mode given the concatenation of the pieces in one update.
StreamingEquivalence ==
    \A o \in ObjIds :
        objs[o].alive =>
            \A n \in PositiveLengths :
                LET d == DigestOf(objs[o], Length(n))
                IN  /\ d.status = "ok"
                    /\ d.bytes = FreshDigest(hist[o].mode, hist[o].fed, n)

\* C1 witness: a hasher given two pieces whose boundary lies inside a
\* block and whose concatenation spans three chunks.
StreamingWitness ==
    \E o \in ObjIds :
        /\ objs[o].alive /\ last.op = "update" /\ last.self = o
        /\ hist[o].feeds = 2
        /\ Len(hist[o].fed) = 2 * BLAKE3_CHUNK_LEN + 1
        /\ Len(objs[o].hasher.cv_stack) = 1
        /\ objs[o].hasher.chunk.chunk_counter = 2

\* C2. Non-destructive finalize: a digest call leaves every hasher as it
\* was; what it returns is the digest of a fresh hasher of the same mode
\* given everything the hasher was given, before and after earlier digest
\* calls; and two digest calls in a row on one hasher agree on the bytes
\* both return.
NonDestructiveFinalize ==
    [][last'.op = "digest" =>
         /\ objs' = objs
         /\ last'.status = "ok" =>
              /\ last'.bytes = FreshDigest(hist[last'.self].mode,
                                           hist[last'.self].fed,
                                           BytesLen(last'.bytes))
              /\ (last.op = "digest" /\ last.status = "ok"
                    /\ last.self = last'.self) =>
                   LET n == Min(BytesLen(last.bytes), BytesLen(last'.bytes))
                   IN  Take(last'.bytes, n) = Take(last.bytes, n)]_vars

\* C2 witness: a digest returned by a hasher that was given two pieces.
NonDestructiveWitness ==
    /\ last.op = "digest" /\ last.status = "ok"
    /\ hist[last.self].feeds = 2
    /\ hist[last.self].fed # << >>
    /\ objs[last.self].type = "Blake3"

ModeValidation ==
    /\ last.op = "BLAKE3" =>
          LET key == last.args.key
              context == last.args.context
              refused == \/ key.given /\ Len(key.v) # BLAKE3_KEY_LEN
                         \/ context.given /\ Len(context.v) = 0
                         \/ key.given /\ context.given
          IN  IF refused
              THEN last.status # "ok" /\ last.new = 0
              ELSE /\ last.status = "ok" /\ last.new # 0
                   /\ objs[last.new].alive
                   /\ objs[last.new].hasher
                        = OneUpdate(ModeOf(key, context), last.args.data.v)
    /\ (last.op = "derive_key" /\ Len(last.args.context.v) = 0) =>
          last.status # "ok"

\* C4 witnesses: a construction refused for a 31-byte key; one refused for
\* a key given together with a context; a derive-key construction that
\* succeeded.
ModeValidationWitness ==
    /\ last.op = "BLAKE3" /\ last.status = "ValueError"
    /\ last.args.key.given /\ Len(last.args.key.v) = BLAKE3_KEY_LEN - 1
    /\ ~last.args.context.given

\* C5. A rejected call leaves the hasher as it was: a digest, hexdigest or
\* __init__ call that raises leaves every hasher object exactly as it was
\* before the call.
RejectedCallLeavesState ==
    [][(last'.op \in {"digest", "hexdigest", "__init__"}
          /\ last'.status # "ok") => objs' = objs]_vars

\* C5 witness: __init__ run again on a hasher that holds input, and
\* rejected.
RejectedCallWitness ==
    /\ last.op = "__init__" /\ last.status # "ok"
    /\ objs[last.self].hasher # blake3_hasher_init
    /\ hist[last.self].fed # << >>

\* C7. Prefix consistency of the extendable output: a digest call returns
\* exactly the number of bytes asked for, read from offset zero of the root
\* output, and for every shorter positive length n the digest of length n
\* of the same state is the first n bytes of it.
PrefixConsistency ==
    (last.op = "digest" /\ last.status = "ok") =>
        LET self == objs[last.self]
            m == IF last.args.length.given THEN last.args.length.v
                 ELSE IF self.type = "Blake3" THEN self.digest_size
                 ELSE BLAKE3_OUT_LEN
        IN  /\ BytesLen(last.bytes) = m
            /\ last.bytes.seek = 0
            /\ \A n \in 1..m :
                   LET d == DigestOf(self, Length(n))
                   IN  /\ d.status = "ok"
                       /\ BytesLen(d.bytes) = n
                       /\ d.bytes = Take(last.bytes, n)
                       /\ \A i \in 0..(n - 1) :
                              ByteAt(d.bytes, i) = ByteAt(last.bytes, i)

\* C7 witness: a 65-byte digest (two output blocks) of a hasher holding
\* more than one chunk.
PrefixWitness ==
    /\ last.op = "digest" /\ last.status = "ok"
    /\ BytesLen(last.bytes) = BLAKE3_BLOCK_LEN + 1
    /\ objs[last.self].type = "BLAKE3"
    /\ Len(hist[last.self].fed) > BLAKE3_CHUNK_LEN

\* C6. Key derivation determinism and separation: derive_key called again
\* with the same material, context and length returns the same bytes, and
\* for the same material any two different non-empty contexts, zero bytes
\* included, give different 32-byte keys.
KdfSeparation ==
    (last.op = "derive_key" /\ last.status = "ok") =>
        LET M == last.args.data.v
            C1 == last.args.context.v
            k1 == blake3_derive_key(M, C1, Length(BLAKE3_KEY_LEN))
        IN  /\ blake3_derive_key(M, C1, last.args.length).bytes = last.bytes
            /\ \A C2 \in WideContexts :
                   (Len(C2) # 0 /\ C2 # C1) =>
                       LET k2 == blake3_derive_key(M, C2,
                                                   Length(BLAKE3_KEY_LEN))
                       IN  /\ k2.status = "ok"
                           /\ k2.bytes # k1.bytes

\* The value of a lowercase hex character, 16 for any other character.
HexValue(c) ==
    IF c >= 48 /\ c <= 57 THEN c - 48
    ELSE IF c >= 97 /\ c <= 102 THEN c - 97 + 10
    ELSE 16

\* C8. Hex correctness: hexdigest is rejected exactly when digest with the
\* same argument is rejected, and otherwise returns the lowercase hex
\* encoding of that digest: two characters of 0-9a-f for each byte, in
\* byte order.
HexCorrectness ==
    last.op = "hexdigest" =>
        LET d == DigestOf(objs[last.self], last.args.length)
        IN  /\ (last.status = "ok") <=> (d.status = "ok")
            /\ last.status = "ok" =>
                  /\ Len(last.hex) = 2 * BytesLen(d.bytes)
                  /\ \A i \in 0..(BytesLen(d.bytes) - 1) :
                        /\ HexValue(last.hex[2 * i + 1]) < 16
                        /\ HexValue(last.hex[2 * i + 2]) < 16
                        /\ 16 * HexValue(last.hex[2 * i + 1])
                             + HexValue(last.hex[2 * i + 2])
                             = ByteValueAt(d.bytes, i)

\* C9. The one-shot derive_key is the composition of the incremental
\* operations: an accepted derive_key(M, C, L) returns what
\* BLAKE3(context=C), update(M), digest(L) returns.
DeriveKeyIsComposition ==
    (last.op = "derive_key" /\ last.status = "ok") =>
        LET M == last.args.data.v
            made == blake3_init(BLAKE3_new, Absent, Absent,
                                last.args.context)
            fed == blake3_update(made.self, M)
            L == IF last.args.length.given THEN last.args.length
                 ELSE Length(BLAKE3_DEFAULT_DIGEST_SIZE)
            d == blake3_digest(fed.self, L)
        IN  /\ made.status = "ok"
            /\ d.status = "ok"
            /\ last.bytes = d.bytes

\* C10. The accepted output lengths are the same for every operation that
\* takes one: digest(length), hexdigest(length) and derive_key(..., length)
\* accept a length exactly when blake3(digest_size=length) accepts it.
SameAcceptedLengths ==
    /\ (last.op \in {"digest", "hexdigest"} /\ last.args.length.given
          /\ objs[last.self].type = "Blake3") =>
          ((last.status = "ok")
             <=> (blake3_new(last.args.length).status = "ok"))
    /\ (last.op = "derive_key" /\ last.args.length.given
          /\ Len(last.args.context.v) # 0) =>
          ((last.status = "ok")
             <=> (blake3_new(last.args.length).status = "ok"))

\* The call of a thread made on an object all at once: the object after
\* it and what the call returns.
AtomicCall(self, call) ==
    IF call.op = "update"
    THEN [self |-> blake3_update(self, call.piece).self, result |-> NoResult]
    ELSE IF call.op = "digest"
    THEN [self |-> self,
          result |-> [NoResult EXCEPT
                        !.bytes = blake3_digest(self, NoLength).bytes]]
    ELSE [self |-> self,
          result |-> [NoResult EXCEPT
                        !.hasher = blake3_copy(self).new.hasher]]

\* C11. Operations on one hasher object are atomic with respect to each
\* other: when two threads have called update, digest or copy on the same
\* object at the same time and both calls have returned, the state of the
\* object and what each call returned are those of the two calls made one
\* after the other, in one of the two orders.
ConcurrentCallsAtomic ==
    (\A t \in ThreadIds : threads.of[t].pc = "done") =>
        \E first \in ThreadIds :
            LET second == CHOOSE t \in ThreadIds : t # first
                s1 == AtomicCall(threads.base, threads.of[first])
                s2 == AtomicCall(s1.self, threads.of[second])
            IN  /\ objs[1] = s2.self
                /\ threads.of[first].result = s1.result
                /\ threads.of[second].result = s2.result

=============================================================================
